---- MODULE Spec2Model ----
(***************************************************************************)
(* A model of json-parser-rs: the lexer (src/src/lexer.rs), the recursive  *)
(* descent parser (src/src/parser.rs), the error locator                   *)
(* (src/src/error.rs) and the value tree with its renderer                 *)
(* (src/src/json.rs).                                                      *)
(*                                                                         *)
(* An input text is a sequence of characters; a character is a one-element *)
(* string, except the two-byte character written "U+00E9".  Offsets are    *)
(* byte offsets, as in the Rust code (usize indices into a &str).          *)
(***************************************************************************)
EXTENDS Integers, Sequences, FiniteSets, TLC

VARIABLES
    input,       \* the text handed to parse_json (Lexer.input)
    parser,      \* the Parser with its Lexer, and the history of its lexer calls:
                 \*   lexer.position, lexer.current_char - the fields of Lexer
                 \*   current_token, peek_token          - the fields of Parser
                 \*   lex_result   - what the last Lexer::next_token call returned
                 \*   scan_from    - byte offset of the character current_char held
                 \*                  when that call began
                 \*   lex_failure  - the first error next_token returned, if any
                 \*   consumed     - the kinds of the tokens advance moved out of
                 \*                  current_token, in order
                 \*   calls        - how many times the Parser called next_token
    pc,          \* where the run is
    stack,       \* the parse_object / parse_array activations in progress; the
                 \* locals of the lexer function that runs, under ScanSpec
    retval,      \* the value parse_value has just returned
    result,      \* what parse_json returned
    phase,       \* 1: parsing the given text, 2: parsing the rendering of its value
    first,       \* the result of phase 1
    loc_offset,  \* the offset handed to ParseError::calculate_position
    loc_result   \* what it returned

vars == <<input, parser, pc, stack, retval, result, phase, first, loc_offset, loc_result>>

tripVars == <<phase, first>>
locVars == <<loc_offset, loc_result>>

-----------------------------------------------------------------------------
(* Characters *)

None == "None"
WideChar == "U+00E9"

Digits == <<"0", "1", "2", "3", "4", "5", "6", "7", "8", "9">>
Letters == {"a", "b", "e", "E", "f", "l", "n", "r", "s", "t", "u", WideChar}

\* char::len_utf8
len_utf8(c) == IF c = WideChar THEN 2 ELSE 1

\* char::is_whitespace
is_whitespace(c) == c \in {" ", "\n", "\t", "\r"}

\* char::is_ascii_digit
is_ascii_digit(c) == \E i \in 1..10 : Digits[i] = c

\* char::is_alphabetic
is_alphabetic(c) == c \in Letters

\* char::is_alphanumeric
is_alphanumeric(c) == is_alphabetic(c) \/ is_ascii_digit(c)

DigitValue(c) == (CHOOSE i \in 1..10 : Digits[i] = c) - 1

RECURSIVE ByteLenTo(_, _)
\* the length in bytes of the first k characters of s
ByteLenTo(s, k) == IF k = 0 THEN 0 ELSE len_utf8(s[k]) + ByteLenTo(s, k - 1)

\* str::len: the length of a text in bytes
ByteLen(s) == ByteLenTo(s, Len(s))

RECURSIVE Concat(_)
Concat(ss) == IF ss = <<>> THEN <<>> ELSE Head(ss) \o Concat(Tail(ss))

\* the byte offset at which the k-th character of s starts (k in 1..Len(s)+1)
OffsetOf(s, k) == ByteLenTo(s, k - 1)

\* whether byte offset p is a character boundary of s (str::is_char_boundary)
is_char_boundary(s, p) == \E k \in 1..(Len(s) + 1) : OffsetOf(s, k) = p

\* the index of the character of s that starts at byte offset p
IndexAt(s, p) == CHOOSE k \in 1..(Len(s) + 1) : OffsetOf(s, k) = p

RECURSIVE CharFrom(_, _, _)
\* the character p bytes after the start of the k-th character of s
CharFrom(s, k, p) ==
    IF k > Len(s) THEN None
    ELSE IF p = 0 THEN s[k]
    ELSE CharFrom(s, k + 1, p - len_utf8(s[k]))

\* input[p..].chars().next(), p a character boundary
CharAt(s, p) == CharFrom(s, 1, p)

-----------------------------------------------------------------------------
(* ParseError (error.rs) *)

Min(a, b) == IF a < b THEN a ELSE b

\* before.matches('\n').count()
CountNewlines(s) == Cardinality({k \in 1..Len(s) : s[k] = "\n"})

\* before.rfind('\n'): the byte index of the last newline, or -1 for Option::None
RFindNewline(s) ==
    IF \E k \in 1..Len(s) : s[k] = "\n"
    THEN OffsetOf(s, CHOOSE k \in 1..Len(s) :
                        /\ s[k] = "\n"
                        /\ \A j \in (k + 1)..Len(s) : s[j] # "\n")
    ELSE -1

\* the (line, column) of ParseError::calculate_position once `before` is sliced
LineColumn(pos, before, i) ==
    [panics |-> FALSE,
     line |-> CountNewlines(before) + 1,
     column |-> (IF i >= 0 THEN pos - i - 1 ELSE pos) + 1]

\* &input[..cut]
Slice(inp, cut) == SubSeq(inp, 1, IndexAt(inp, cut) - 1)

\* ParseError::calculate_position.  Slicing a &str off a character boundary
\* panics.
calculate_position(pos, inp) ==
    IF ~ is_char_boundary(inp, Min(pos, ByteLen(inp)))
    THEN [panics |-> TRUE, line |-> 0, column |-> 0]
    ELSE LineColumn(pos, Slice(inp, Min(pos, ByteLen(inp))),
                    RFindNewline(Slice(inp, Min(pos, ByteLen(inp)))))

\* Self { message, position, line, column }
ParseErrorOf(message, pos, lc) ==
    [message |-> message, position |-> pos, line |-> lc.line, column |-> lc.column]

\* ParseError::new
ParseErrorNew(message, pos, inp) ==
    ParseErrorOf(message, pos, calculate_position(pos, inp))

NoError == [message |-> <<>>, position |-> 0, line |-> 0, column |-> 0]

-----------------------------------------------------------------------------
(* Numbers.  An f64 is written sign, integer digits without leading zeros  *)
(* and fraction digits without trailing zeros; the literals of the model   *)
(* have at most 15 significant digits, or are powers of ten, and those an  *)
(* f64 holds exactly.                                                      *)

RECURSIVE StripLeadingZeros(_)
StripLeadingZeros(ds) ==
    IF ds # <<>> /\ Head(ds) = 0 THEN StripLeadingZeros(Tail(ds)) ELSE ds

RECURSIVE StripTrailingZeros(_)
StripTrailingZeros(ds) ==
    IF ds # <<>> /\ ds[Len(ds)] = 0
    THEN StripTrailingZeros(SubSeq(ds, 1, Len(ds) - 1))
    ELSE ds

NoNumber == [neg |-> FALSE, int |-> <<>>, frac |-> <<>>]

\* i64::MAX = 9223372036854775807 and 2^63, digit by digit
I64MaxDigits == <<9, 2, 2, 3, 3, 7, 2, 0, 3, 6, 8, 5, 4, 7, 7, 5, 8, 0, 7>>
TwoTo63Digits == <<9, 2, 2, 3, 3, 7, 2, 0, 3, 6, 8, 5, 4, 7, 7, 5, 8, 0, 8>>

\* the f64 nearest to a decimal: 2^63 for i64::MAX, which no f64 holds
NearestF64(v) ==
    IF v.int = I64MaxDigits /\ v.frac = <<>> THEN [v EXCEPT !.int = TwoTo63Digits] ELSE v

\* the digits of a text of ASCII digits
DigitValues(s) == [k \in 1..Len(s) |-> DigitValue(s[k])]

\* the f64 written by the integer digits ip and the fraction digits fp
Decimal(neg, ip, fp) ==
    IF /\ Len(ip) + Len(fp) >= 1
       /\ \A k \in 1..Len(ip) : is_ascii_digit(ip[k])
       /\ \A j \in 1..Len(fp) : is_ascii_digit(fp[j])
    THEN [ok |-> TRUE,
          val |-> NearestF64([neg |-> neg,
                              int |-> StripLeadingZeros(DigitValues(ip)),
                              frac |-> StripTrailingZeros(DigitValues(fp))])]
    ELSE [ok |-> FALSE, val |-> NoNumber]

\* the index of the first '.' of a text, or one past its end
DotIndex(body) ==
    IF \E k \in 1..Len(body) : body[k] = "."
    THEN CHOOSE k \in 1..Len(body) : body[k] = "." /\ \A j \in 1..(k - 1) : body[j] # "."
    ELSE Len(body) + 1

Unsigned(neg, body, dot) ==
    Decimal(neg, SubSeq(body, 1, dot - 1), SubSeq(body, dot + 1, Len(body)))

\* str::parse::<f64> on the text read_number accumulates: an optional '-',
\* then digits with at most one '.', and at least one digit
ParseF64(number_str) ==
    IF number_str # <<>> /\ Head(number_str) = "-"
    THEN Unsigned(TRUE, Tail(number_str), DotIndex(Tail(number_str)))
    ELSE Unsigned(FALSE, number_str, DotIndex(number_str))

\* f64 == f64: -0.0 equals 0.0
F64Eq(a, b) ==
    /\ a.int = b.int
    /\ a.frac = b.frac
    /\ (a.neg = b.neg \/ (a.int = <<>> /\ a.frac = <<>>))

-----------------------------------------------------------------------------
(* Tokens (lexer.rs) *)

Token(kind) == [kind |-> kind, s |-> <<>>, n |-> NoNumber, b |-> FALSE]
TokenString(s) == [Token("String") EXCEPT !.s = s]
TokenNumber(n) == [Token("Number") EXCEPT !.n = n]
TokenBoolean(b) == [Token("Boolean") EXCEPT !.b = b]
Eof == Token("Eof")
\* Option::None in Parser.peek_token, and the token slots before Parser::new
NoToken == Token("None")

\* Result<Token, ParseError> together with the lexer state the call leaves
LexOk(tok, lx) == [ok |-> TRUE, tok |-> tok, err |-> NoError, lx |-> lx]
LexErr(err, lx) == [ok |-> FALSE, tok |-> NoToken, err |-> err, lx |-> lx]

\* Lexer::advance
LexerAdvance(inp, lx) ==
    IF lx.position < ByteLen(inp)
    THEN LET c == CharAt(inp, lx.position) IN
         [position |-> lx.position + len_utf8(c), current_char |-> c]
    ELSE [lx EXCEPT !.current_char = None]

\* Lexer::new
LexerNew(inp) == LexerAdvance(inp, [position |-> 0, current_char |-> None])

RECURSIVE skip_whitespace(_, _)
\* Lexer::skip_whitespace
skip_whitespace(inp, lx) ==
    IF lx.current_char # None /\ is_whitespace(lx.current_char)
    THEN skip_whitespace(inp, LexerAdvance(inp, lx))
    ELSE lx

RECURSIVE ReadStringLoop(_, _, _, _, _)
\* the while loop of Lexer::read_string and the error after it
ReadStringLoop(inp, lx, string, escaped, start_pos) ==
    LET ch == lx.current_char IN
    IF ch = None
    THEN LexErr(ParseErrorNew(<<"Unterminated string">>, start_pos, inp), lx)
    ELSE IF escaped
    THEN IF ch \in {"\"", "\\", "n", "r", "t"}
         THEN ReadStringLoop(inp, LexerAdvance(inp, lx),
                             Append(string, CASE ch = "n" -> "\n"
                                              [] ch = "r" -> "\r"
                                              [] ch = "t" -> "\t"
                                              [] OTHER -> ch),
                             FALSE, start_pos)
         ELSE LexErr(ParseErrorNew(<<"Invalid escape sequence: \\", ch>>,
                                   lx.position, inp), lx)
    ELSE IF ch = "\\"
    THEN ReadStringLoop(inp, LexerAdvance(inp, lx), string, TRUE, start_pos)
    ELSE IF ch = "\""
    THEN LexOk(TokenString(string), LexerAdvance(inp, lx))
    ELSE ReadStringLoop(inp, LexerAdvance(inp, lx), Append(string, ch), FALSE, start_pos)

\* Lexer::read_string
read_string(inp, lx) ==
    ReadStringLoop(inp, LexerAdvance(inp, lx), <<>>, FALSE, lx.position)

RECURSIVE ReadDigitsBefore(_, _, _, _)
\* the first while loop of Lexer::read_number: digits and the first '.'
ReadDigitsBefore(inp, lx, number_str, has_dot) ==
    LET ch == lx.current_char IN
    IF ch # None /\ is_ascii_digit(ch)
    THEN ReadDigitsBefore(inp, LexerAdvance(inp, lx), Append(number_str, ch), has_dot)
    ELSE IF ch = "." /\ ~ has_dot
    THEN ReadDigitsBefore(inp, LexerAdvance(inp, lx), Append(number_str, "."), TRUE)
    ELSE [lx |-> lx, number_str |-> number_str, has_dot |-> has_dot]

RECURSIVE ReadDigitsAfter(_, _, _)
\* the second while loop of Lexer::read_number: digits after the '.'
ReadDigitsAfter(inp, lx, number_str) ==
    LET ch == lx.current_char IN
    IF ch # None /\ is_ascii_digit(ch)
    THEN ReadDigitsAfter(inp, LexerAdvance(inp, lx), Append(number_str, ch))
    ELSE [lx |-> lx, number_str |-> number_str]

\* the end of Lexer::read_number: number_str.parse::<f64>()
NumberToken(inp, start_pos, lx, parsed) ==
    IF parsed.ok
    THEN LexOk(TokenNumber(parsed.val), lx)
    ELSE LexErr(ParseErrorNew(<<"Invalid number">>, start_pos, inp), lx)

\* Lexer::read_number from its second loop on
ReadFraction(inp, start_pos, r1) ==
    IF r1.has_dot
    THEN NumberToken(inp, start_pos,
                     ReadDigitsAfter(inp, r1.lx, r1.number_str).lx,
                     ParseF64(ReadDigitsAfter(inp, r1.lx, r1.number_str).number_str))
    ELSE NumberToken(inp, start_pos, r1.lx, ParseF64(r1.number_str))

\* Lexer::read_number
read_number(inp, lx) ==
    IF lx.current_char = "-"
    THEN ReadFraction(inp, lx.position,
                      ReadDigitsBefore(inp, LexerAdvance(inp, lx), <<"-">>, FALSE))
    ELSE ReadFraction(inp, lx.position, ReadDigitsBefore(inp, lx, <<>>, FALSE))

RECURSIVE ReadKeywordLoop(_, _, _)
\* the while loop of Lexer::read_keyword
ReadKeywordLoop(inp, lx, keyword) ==
    LET ch == lx.current_char IN
    IF ch # None /\ is_alphanumeric(ch)
    THEN ReadKeywordLoop(inp, LexerAdvance(inp, lx), Append(keyword, ch))
    ELSE [lx |-> lx, keyword |-> keyword]

\* the match of Lexer::read_keyword
KeywordToken(inp, start_pos, r) ==
    CASE r.keyword = <<"t", "r", "u", "e">> -> LexOk(TokenBoolean(TRUE), r.lx)
      [] r.keyword = <<"f", "a", "l", "s", "e">> -> LexOk(TokenBoolean(FALSE), r.lx)
      [] r.keyword = <<"n", "u", "l", "l">> -> LexOk(Token("Null"), r.lx)
      [] OTHER -> LexErr(ParseErrorNew(<<"Unexpected keyword: ">> \o r.keyword,
                                       start_pos, inp), r.lx)

\* Lexer::read_keyword
read_keyword(inp, lx) == KeywordToken(inp, lx.position, ReadKeywordLoop(inp, lx, <<>>))

\* the match of Lexer::next_token, after skip_whitespace
Dispatch(inp, lx, ch) ==
    CASE ch = None -> LexOk(Eof, lx)
      [] ch = "{" -> LexOk(Token("LeftBrace"), LexerAdvance(inp, lx))
      [] ch = "}" -> LexOk(Token("RightBrace"), LexerAdvance(inp, lx))
      [] ch = "[" -> LexOk(Token("LeftBracket"), LexerAdvance(inp, lx))
      [] ch = "]" -> LexOk(Token("RightBracket"), LexerAdvance(inp, lx))
      [] ch = "," -> LexOk(Token("Comma"), LexerAdvance(inp, lx))
      [] ch = ":" -> LexOk(Token("Colon"), LexerAdvance(inp, lx))
      [] ch = "\"" -> read_string(inp, lx)
      [] ch # None /\ (is_ascii_digit(ch) \/ ch = "-") -> read_number(inp, lx)
      [] ch # None /\ is_alphabetic(ch) -> read_keyword(inp, lx)
      [] OTHER -> LexErr(ParseErrorNew(<<"Unexpected character: '", ch, "'">>,
                                       lx.position, inp), lx)

\* a next_token whose Eof moves the scan position on
next_tokenPastEnd(inp, lx) ==
    IF skip_whitespace(inp, lx).current_char = None
    THEN LexOk(Eof, [skip_whitespace(inp, lx) EXCEPT !.position = @ + 1])
    ELSE Dispatch(inp, skip_whitespace(inp, lx), skip_whitespace(inp, lx).current_char)

\* Lexer::next_token
next_token(inp, lx) ==
    Dispatch(inp, skip_whitespace(inp, lx), skip_whitespace(inp, lx).current_char)

-----------------------------------------------------------------------------
(* JsonValue (json.rs) *)

JsonValue(tag) == [tag |-> tag, b |-> FALSE, n |-> NoNumber, s |-> <<>>, items |-> <<>>]
JsonNull == JsonValue("Null")
JsonBoolean(b) == [JsonValue("Boolean") EXCEPT !.b = b]
JsonNumber(n) == [JsonValue("Number") EXCEPT !.n = n]
JsonString(s) == [JsonValue("String") EXCEPT !.s = s]
\* Array(Vec<JsonValue>)
JsonArray(elements) == [JsonValue("Array") EXCEPT !.items = elements]
\* Object(Vec<(String, JsonValue)>): items are records [key, value]
JsonObject(pairs) == [JsonValue("Object") EXCEPT !.items = pairs]

RECURSIVE JsonEq(_, _)
\* #[derive(PartialEq)] on JsonValue
JsonEq(v, w) ==
    /\ v.tag = w.tag
    /\ CASE v.tag = "Boolean" -> v.b = w.b
         [] v.tag = "Number" -> F64Eq(v.n, w.n)
         [] v.tag = "String" -> v.s = w.s
         [] v.tag = "Array" ->
                /\ Len(v.items) = Len(w.items)
                /\ \A k \in 1..Len(v.items) : JsonEq(v.items[k], w.items[k])
         [] v.tag = "Object" ->
                /\ Len(v.items) = Len(w.items)
                /\ \A k \in 1..Len(v.items) :
                        /\ v.items[k].key = w.items[k].key
                        /\ JsonEq(v.items[k].value, w.items[k].value)
         [] OTHER -> TRUE

\* the five characters escape_string rewrites, as <<character, letter after the backslash>>
Escapes == {<<"\"", "\"">>, <<"\\", "\\">>, <<"\n", "n">>, <<"\r", "r">>, <<"\t", "t">>}

RECURSIVE escape_string(_)
\* escape_string
escape_string(s) ==
    IF s = <<>> THEN <<>>
    ELSE (IF \E e \in Escapes : e[1] = Head(s)
          THEN <<"\\", (CHOOSE e \in Escapes : e[1] = Head(s))[2]>>
          ELSE <<Head(s)>>) \o escape_string(Tail(s))

DigitText(ds) == [k \in 1..Len(ds) |-> Digits[ds[k] + 1]]

\* whether the integer written ds (no leading zeros) is at least the one written bound
DigitsGE(ds, bound) ==
    \/ Len(ds) > Len(bound)
    \/ /\ Len(ds) = Len(bound)
       /\ \/ ds = bound
          \/ \E k \in 1..Len(ds) :
                /\ ds[k] > bound[k]
                /\ \A j \in 1..(k - 1) : ds[j] = bound[j]

\* format!("{}", n as i64) for an f64 without fraction: the cast saturates at
\* i64::MAX and i64::MIN
I64Text(n) ==
    IF n.int = <<>> THEN <<"0">>
    ELSE IF ~ n.neg
    THEN DigitText(IF DigitsGE(n.int, TwoTo63Digits) THEN I64MaxDigits ELSE n.int)
    ELSE <<"-">> \o DigitText(IF DigitsGE(n.int, TwoTo63Digits) THEN TwoTo63Digits ELSE n.int)

\* f64::to_string for an f64 with a fraction
F64Text(n) ==
    (IF n.neg THEN <<"-">> ELSE <<>>)
        \o (IF n.int = <<>> THEN <<"0">> ELSE DigitText(n.int))
        \o <<".">> \o DigitText(n.frac)

RECURSIVE to_json_string(_)
RECURSIVE JoinItems(_, _)
\* items.join(", ") over the rendered elements (array) or "key": value pairs (object)
JoinItems(items, isObject) ==
    IF items = <<>> THEN <<>>
    ELSE (IF isObject
          THEN <<"\"">> \o escape_string(Head(items).key) \o <<"\"", ":", " ">>
                   \o to_json_string(Head(items).value)
          ELSE to_json_string(Head(items)))
         \o (IF Tail(items) = <<>> THEN <<>> ELSE <<",", " ">> \o JoinItems(Tail(items), isObject))

\* JsonValue::to_json_string
to_json_string(v) ==
    CASE v.tag = "Null" -> <<"n", "u", "l", "l">>
      [] v.tag = "Boolean" ->
            IF v.b THEN <<"t", "r", "u", "e">> ELSE <<"f", "a", "l", "s", "e">>
      [] v.tag = "Number" -> IF v.n.frac = <<>> THEN I64Text(v.n) ELSE F64Text(v.n)
      [] v.tag = "String" -> <<"\"">> \o escape_string(v.s) \o <<"\"">>
      [] v.tag = "Array" -> <<"[">> \o JoinItems(v.items, FALSE) \o <<"]">>
      [] v.tag = "Object" -> <<"{">> \o JoinItems(v.items, TRUE) \o <<"}">>

-----------------------------------------------------------------------------
(* Parser (parser.rs) *)

\* {:?} of a Token
DebugToken(tok) ==
    CASE tok.kind = "String" -> <<"String(\"">> \o escape_string(tok.s) \o <<"\")">>
      [] tok.kind = "Number" ->
            <<"Number(">> \o F64Text(tok.n) \o (IF tok.n.frac = <<>> THEN <<"0">> ELSE <<>>)
                \o <<")">>
      [] tok.kind = "Boolean" ->
            <<"Boolean(", IF tok.b THEN "true" ELSE "false", ")">>
      [] OTHER -> <<tok.kind>>

NoFailure == [any |-> FALSE, err |-> NoError]

NoLexResult == [ok |-> TRUE, tok |-> NoToken, err |-> NoError]

\* the parser after a lexer.next_token() call that returned r
Called(ps, r) ==
    [ps EXCEPT !.lexer = r.lx,
               !.lex_result = [ok |-> r.ok, tok |-> r.tok, err |-> r.err],
               !.scan_from = ps.lexer.position
                               - (IF ps.lexer.current_char = None THEN 0
                                  ELSE len_utf8(ps.lexer.current_char)),
               !.lex_failure = IF ~ r.ok /\ ~ ps.lex_failure.any
                               THEN [any |-> TRUE, err |-> r.err]
                               ELSE ps.lex_failure,
               !.calls = ps.calls + 1]

\* lexer.next_token() as the parser calls it
CallLexer(inp, ps) == Called(ps, next_token(inp, ps.lexer))

\* lexer.next_token().unwrap_or(Token::Eof)
UnwrapOrEof(last) == IF last.ok THEN last.tok ELSE Eof

\* self.peek_token = Some(<the lexer's answer>.unwrap_or(Token::Eof))
WithPeek(called) == [called EXCEPT !.peek_token = UnwrapOrEof(called.lex_result)]

\* a lookahead left empty once the current token is Eof
FillPeekLeavingNone(inp, ps) ==
    IF ps.current_token # Eof
    THEN WithPeek(CallLexer(inp, ps))
    ELSE ps

\* a lookahead refilled from the lexer whatever the current token is
FillPeekCallingLexer(inp, ps) == WithPeek(CallLexer(inp, ps))

\* the lookahead after current_token was set: the next token unless that is Eof
FillPeek(inp, ps) ==
    IF ps.current_token # Eof
    THEN WithPeek(CallLexer(inp, ps))
    ELSE [ps EXCEPT !.peek_token = Eof]

\* self.peek_token.take().unwrap_or(Token::Eof)
TakeOrEof(peek) == IF peek = NoToken THEN Eof ELSE peek

\* Parser::advance
ParserAdvance(inp, ps) ==
    FillPeek(inp, [ps EXCEPT !.current_token = TakeOrEof(ps.peek_token),
                             !.peek_token = NoToken,
                             !.consumed = Append(ps.consumed, ps.current_token.kind)])

\* Parser::new, after its first lexer.next_token()? succeeded
ParserPrime(inp, primed) ==
    FillPeek(inp, [primed EXCEPT !.current_token = primed.lex_result.tok])

\* the parser before Parser::new ran
NoParser ==
    [lexer |-> [position |-> 0, current_char |-> None],
     current_token |-> NoToken, peek_token |-> NoToken,
     lex_result |-> NoLexResult, scan_from |-> 0,
     lex_failure |-> NoFailure, consumed |-> <<>>, calls |-> 0]

NoResult == [kind |-> "none", value |-> JsonNull, err |-> NoError]
Ok(v) == [kind |-> "ok", value |-> v, err |-> NoError]
Err(e) == [kind |-> "err", value |-> JsonNull, err |-> e]

\* a parser error: ParseError::new(message, self.lexer.position, self.lexer.input)
Fail(message, ps) ==
    /\ result' = Err(ParseErrorNew(message, ps.lexer.position, input))
    /\ pc' = "done"

\* an activation of parse_object ("object": pairs, and the key read last) or of
\* parse_array ("array": elements)
Frame(kind) == [kind |-> kind, items |-> <<>>, key |-> <<>>]

\* Parser::new once its first lexer.next_token() returned
Primed(primed) ==
    IF ~ primed.lex_result.ok
    THEN /\ parser' = primed
         /\ result' = Err(primed.lex_result.err)
         /\ pc' = "done"
    ELSE /\ parser' = ParserPrime(input, primed)
         /\ pc' = "value"
         /\ UNCHANGED result

\* Parser::new; on success parse_json goes on to Parser::parse, which calls
\* parse_value
ParserNew ==
    /\ pc = "new"
    /\ Primed(CallLexer(input, [NoParser EXCEPT !.lexer = LexerNew(input)]))
    /\ UNCHANGED <<input, stack, retval, tripVars, locVars>>

\* Parser::parse_value on a String, Number, Boolean or Null token
ParseScalar ==
    /\ pc = "value"
    /\ parser.current_token.kind \in {"String", "Number", "Boolean", "Null"}
    /\ retval' = CASE parser.current_token.kind = "String" ->
                            JsonString(parser.current_token.s)
                   [] parser.current_token.kind = "Number" ->
                            JsonNumber(parser.current_token.n)
                   [] parser.current_token.kind = "Boolean" ->
                            JsonBoolean(parser.current_token.b)
                   [] OTHER -> JsonNull
    /\ parser' = ParserAdvance(input, parser)
    /\ pc' = "return"
    /\ UNCHANGED <<input, stack, result, tripVars, locVars>>

\* parse_object / parse_array after expect_token consumed the '{' or '['
Opened(isObject, closer, opened) ==
    IF opened.current_token.kind = closer
    THEN /\ parser' = ParserAdvance(input, opened)
         /\ retval' = IF isObject THEN JsonObject(<<>>) ELSE JsonArray(<<>>)
         /\ pc' = "return"
         /\ UNCHANGED stack
    ELSE /\ parser' = opened
         /\ stack' = Append(stack, Frame(IF isObject THEN "object" ELSE "array"))
         /\ pc' = IF isObject THEN "key" ELSE "value"
         /\ UNCHANGED retval

\* Parser::parse_value on '{' or '[': parse_object / parse_array up to its loop
ParseOpen ==
    /\ pc = "value"
    /\ parser.current_token.kind \in {"LeftBrace", "LeftBracket"}
    /\ Opened(parser.current_token.kind = "LeftBrace",
              IF parser.current_token.kind = "LeftBrace" THEN "RightBrace"
              ELSE "RightBracket",
              ParserAdvance(input, parser))
    /\ UNCHANGED <<input, result, tripVars, locVars>>

\* Parser::parse_value on any other token
ParseUnexpected ==
    /\ pc = "value"
    /\ parser.current_token.kind \notin
            {"String", "Number", "Boolean", "Null", "LeftBrace", "LeftBracket"}
    /\ Fail(<<"Unexpected token: ">> \o DebugToken(parser.current_token), parser)
    /\ UNCHANGED <<input, parser, stack, retval, tripVars, locVars>>

\* parse_object after the key was consumed: expect_token(Token::Colon)
Keyed(key, keyed) ==
    IF keyed.current_token.kind # "Colon"
    THEN /\ parser' = keyed
         /\ Fail(<<"Expected Colon, found ">> \o DebugToken(keyed.current_token), keyed)
         /\ UNCHANGED stack
    ELSE /\ parser' = ParserAdvance(input, keyed)
         /\ stack' = [stack EXCEPT ![Len(stack)].key = key]
         /\ pc' = "value"
         /\ UNCHANGED result

\* parse_object: the key and the colon of a member
ObjectKey ==
    /\ pc = "key"
    /\ IF parser.current_token.kind # "String"
       THEN /\ Fail(<<"Object key must be a string">>, parser)
            /\ UNCHANGED <<parser, stack>>
       ELSE Keyed(parser.current_token.s, ParserAdvance(input, parser))
    /\ UNCHANGED <<input, retval, tripVars, locVars>>

\* the same match without the check for a trailing comma
SeparatedUnchecked(isObject, closer, items, after) ==
    CASE parser.current_token.kind = "Comma" ->
            /\ parser' = after
            /\ stack' = [stack EXCEPT ![Len(stack)].items = items]
            /\ pc' = IF isObject THEN "key" ELSE "value"
            /\ UNCHANGED <<retval, result>>
      [] parser.current_token.kind = closer ->
            /\ parser' = after
            /\ retval' = IF isObject THEN JsonObject(items) ELSE JsonArray(items)
            /\ stack' = SubSeq(stack, 1, Len(stack) - 1)
            /\ pc' = "return"
            /\ UNCHANGED result
      [] OTHER ->
            /\ Fail(<<"Expected ',' or '", IF isObject THEN "}" ELSE "]", "', found ">>
                        \o DebugToken(parser.current_token), parser)
            /\ UNCHANGED <<parser, stack, retval>>

\* the match at the end of the loop of parse_object / parse_array, the member
\* pushed; `after` is the parser after self.advance()
Separated(isObject, closer, items, after) ==
    CASE parser.current_token.kind = "Comma" ->
            /\ parser' = after
            /\ UNCHANGED retval
            /\ IF after.current_token.kind = closer
               THEN /\ Fail(<<"Trailing comma not allowed">>, after)
                    /\ UNCHANGED stack
               ELSE /\ stack' = [stack EXCEPT ![Len(stack)].items = items]
                    /\ pc' = IF isObject THEN "key" ELSE "value"
                    /\ UNCHANGED result
      [] parser.current_token.kind = closer ->
            /\ parser' = after
            /\ retval' = IF isObject THEN JsonObject(items) ELSE JsonArray(items)
            /\ stack' = SubSeq(stack, 1, Len(stack) - 1)
            /\ pc' = "return"
            /\ UNCHANGED result
      [] OTHER ->
            /\ Fail(<<"Expected ',' or '", IF isObject THEN "}" ELSE "]", "', found ">>
                        \o DebugToken(parser.current_token), parser)
            /\ UNCHANGED <<parser, stack, retval>>

\* a member that takes the place of an earlier pair with the same key, as in a map
PushedOverwriting(top, value) ==
    IF top.kind = "object" /\ \E k \in 1..Len(top.items) : top.items[k].key = top.key
    THEN [k \in 1..Len(top.items) |->
            IF top.items[k].key = top.key THEN [key |-> top.key, value |-> value]
            ELSE top.items[k]]
    ELSE Append(top.items, IF top.kind = "object" THEN [key |-> top.key, value |-> value]
                           ELSE value)

\* the member parse_value returned, pushed on the activation's pairs / elements
Pushed(top, value) ==
    Append(top.items, IF top.kind = "object" THEN [key |-> top.key, value |-> value]
                      ELSE value)

\* parse_object / parse_array after parse_value returned: push the member, then
\* the match on a comma or the closing token
Separator ==
    /\ pc = "return"
    /\ stack # <<>>
    /\ Separated(stack[Len(stack)].kind = "object",
                 IF stack[Len(stack)].kind = "object" THEN "RightBrace" ELSE "RightBracket",
                 Pushed(stack[Len(stack)], retval),
                 ParserAdvance(input, parser))
    /\ UNCHANGED <<input, tripVars, locVars>>

\* Parser::parse after parse_value returned the top-level value
ParseEnd ==
    /\ pc = "return"
    /\ stack = <<>>
    /\ IF parser.current_token # Eof
       THEN Fail(<<"Unexpected token after JSON value: ">>
                    \o DebugToken(parser.current_token), parser)
       ELSE /\ result' = Ok(retval)
            /\ pc' = "done"
    /\ UNCHANGED <<input, parser, stack, retval, tripVars, locVars>>

ParserStep ==
    \/ ParserNew
    \/ ParseScalar
    \/ ParseOpen
    \/ ParseUnexpected
    \/ ObjectKey
    \/ Separator
    \/ ParseEnd

\* how many times Parser::advance is called on its own
MaxAdvances == 4

\* Parser::advance called on its own, whatever the current token is
AdvanceAlone ==
    /\ pc = "value"
    /\ Len(parser.consumed) < MaxAdvances
    /\ parser' = ParserAdvance(input, parser)
    /\ UNCHANGED <<input, pc, stack, retval, result, tripVars, locVars>>

\* the state before parse_json(text) is called
Fresh(text) ==
    /\ input = text
    /\ parser = NoParser
    /\ pc = "new"
    /\ stack = <<>>
    /\ retval = JsonNull
    /\ result = NoResult
    /\ phase = 1
    /\ first = NoResult
    /\ loc_offset = 0
    /\ loc_result = calculate_position(0, <<>>)

\* JsonValue::to_json_string on the value parse_json returned, and parse_json
\* on the text it gives
Render ==
    /\ pc = "done"
    /\ phase = 1
    /\ result.kind = "ok"
    /\ input' = to_json_string(result.value)
    /\ first' = result
    /\ phase' = 2
    /\ parser' = NoParser
    /\ pc' = "new"
    /\ stack' = <<>>
    /\ retval' = JsonNull
    /\ result' = NoResult
    /\ UNCHANGED locVars

\* Lexer::next_token, called on a lexer of its own
LexNextToken ==
    /\ pc = "lexer"
    /\ parser' = [CallLexer(input, parser) EXCEPT !.calls = 0]
    /\ UNCHANGED <<input, pc, stack, retval, result, tripVars, locVars>>

\* ParseError::calculate_position(offset, input)
Locate(offset) ==
    /\ pc = "locate"
    /\ loc_offset' = offset
    /\ loc_result' = calculate_position(offset, input)
    /\ pc' = "located"
    /\ UNCHANGED <<input, parser, stack, retval, result, tripVars>>

-----------------------------------------------------------------------------
(* Lexer::next_token one loop iteration at a time.  The stack holds the     *)
(* locals of the read_string / read_number / read_keyword call that runs.   *)

\* start_pos, string / number_str / keyword, escaped, has_dot
ScanFrame(kind, start_pos, text) ==
    [kind |-> kind, start_pos |-> start_pos, text |-> text,
     escaped |-> FALSE, has_dot |-> FALSE]

\* next_token returns r; its caller calls again unless r is Eof or an error
ScanReturn(r) ==
    /\ parser' = [parser EXCEPT !.lexer = r.lx,
                                !.lex_result = [ok |-> r.ok, tok |-> r.tok, err |-> r.err]]
    /\ stack' = <<>>
    /\ pc' = IF r.ok /\ r.tok # Eof THEN "next_token" ELSE "scanned"

\* the lexer advances inside a loop that goes on
ScanAdvance(frame) ==
    /\ parser' = [parser EXCEPT !.lexer = LexerAdvance(input, parser.lexer)]
    /\ stack' = frame
    /\ pc' = pc

\* an iteration of the loop of skip_whitespace
SkipWhitespaceIter ==
    /\ pc = "next_token"
    /\ parser.lexer.current_char # None
    /\ is_whitespace(parser.lexer.current_char)
    /\ ScanAdvance(stack)
    /\ UNCHANGED <<input, retval, result, tripVars, locVars>>

\* the loop of skip_whitespace ends
SkipWhitespaceExit ==
    /\ pc = "next_token"
    /\ parser.lexer.current_char = None \/ ~ is_whitespace(parser.lexer.current_char)
    /\ pc' = "match"
    /\ UNCHANGED <<input, parser, stack, retval, result, tripVars, locVars>>

\* the match of next_token on a character that begins a string, a number or
\* a keyword: the function called, up to its loop
ScanCall(ch, lx) ==
    CASE ch = "\"" ->
            /\ parser' = [parser EXCEPT !.lexer = LexerAdvance(input, lx)]
            /\ stack' = <<ScanFrame("read_string", lx.position, <<>>)>>
            /\ pc' = "read_string"
      [] ch = "-" ->
            /\ parser' = [parser EXCEPT !.lexer = LexerAdvance(input, lx)]
            /\ stack' = <<ScanFrame("read_number", lx.position, <<"-">>)>>
            /\ pc' = "read_number"
      [] is_ascii_digit(ch) ->
            /\ stack' = <<ScanFrame("read_number", lx.position, <<>>)>>
            /\ pc' = "read_number"
            /\ UNCHANGED parser
      [] OTHER ->
            /\ stack' = <<ScanFrame("read_keyword", lx.position, <<>>)>>
            /\ pc' = "read_keyword"
            /\ UNCHANGED parser

\* the match of next_token
ScanMatch ==
    /\ pc = "match"
    /\ IF parser.lexer.current_char # None
          /\ (\/ parser.lexer.current_char \in {"\"", "-"}
              \/ is_ascii_digit(parser.lexer.current_char)
              \/ is_alphabetic(parser.lexer.current_char))
       THEN ScanCall(parser.lexer.current_char, parser.lexer)
       ELSE ScanReturn(Dispatch(input, parser.lexer, parser.lexer.current_char))
    /\ UNCHANGED <<input, retval, result, tripVars, locVars>>

\* the character an escape stands for
Unescaped(ch) ==
    CASE ch = "n" -> "\n"
      [] ch = "r" -> "\r"
      [] ch = "t" -> "\t"
      [] OTHER -> ch

\* an iteration of the loop of read_string that goes on to the next one
ReadStringIter ==
    /\ pc = "read_string"
    /\ parser.lexer.current_char # None
    /\ IF stack[1].escaped
       THEN /\ parser.lexer.current_char \in {"\"", "\\", "n", "r", "t"}
            /\ ScanAdvance(<<[stack[1] EXCEPT
                                !.text = Append(@, Unescaped(parser.lexer.current_char)),
                                !.escaped = FALSE]>>)
       ELSE IF parser.lexer.current_char = "\\"
       THEN ScanAdvance(<<[stack[1] EXCEPT !.escaped = TRUE]>>)
       ELSE /\ parser.lexer.current_char # "\""
            /\ ScanAdvance(<<[stack[1] EXCEPT
                                !.text = Append(@, parser.lexer.current_char)]>>)
    /\ UNCHANGED <<input, retval, result, tripVars, locVars>>

\* the iteration of the loop of read_string that returns: the closing quote,
\* or an escape that is not one
ReadStringReturn ==
    /\ pc = "read_string"
    /\ parser.lexer.current_char # None
    /\ IF stack[1].escaped
       THEN /\ parser.lexer.current_char \notin {"\"", "\\", "n", "r", "t"}
            /\ ScanReturn(LexErr(ParseErrorNew(<<"Invalid escape sequence: \\",
                                                 parser.lexer.current_char>>,
                                               parser.lexer.position, input),
                                 parser.lexer))
       ELSE /\ parser.lexer.current_char = "\""
            /\ ScanReturn(LexOk(TokenString(stack[1].text),
                                LexerAdvance(input, parser.lexer)))
    /\ UNCHANGED <<input, retval, result, tripVars, locVars>>

\* the loop of read_string ends at the end of the input
ReadStringExit ==
    /\ pc = "read_string"
    /\ parser.lexer.current_char = None
    /\ ScanReturn(LexErr(ParseErrorNew(<<"Unterminated string">>, stack[1].start_pos, input),
                         parser.lexer))
    /\ UNCHANGED <<input, retval, result, tripVars, locVars>>

\* the first loop of read_number goes on with this character
IsNumberChar(ch, has_dot) == ch # None /\ (is_ascii_digit(ch) \/ (ch = "." /\ ~ has_dot))

\* an iteration of the first loop of read_number
ReadNumberIter ==
    /\ pc = "read_number"
    /\ IsNumberChar(parser.lexer.current_char, stack[1].has_dot)
    /\ ScanAdvance(<<[stack[1] EXCEPT
                        !.text = Append(@, parser.lexer.current_char),
                        !.has_dot = @ \/ parser.lexer.current_char = "."]>>)
    /\ UNCHANGED <<input, retval, result, tripVars, locVars>>

\* the first loop of read_number ends: the second loop if there was a '.',
\* else the number is parsed
ReadNumberExit ==
    /\ pc = "read_number"
    /\ ~ IsNumberChar(parser.lexer.current_char, stack[1].has_dot)
    /\ IF stack[1].has_dot
       THEN pc' = "read_fraction" /\ UNCHANGED <<parser, stack>>
       ELSE ScanReturn(NumberToken(input, stack[1].start_pos, parser.lexer,
                                   ParseF64(stack[1].text)))
    /\ UNCHANGED <<input, retval, result, tripVars, locVars>>

\* the second loop of read_number goes on with this character
IsFractionChar(ch) == ch # None /\ is_ascii_digit(ch)

\* the second loop of read_number: an iteration, or its end and the number
\* parsed.  The first loop takes the digits after the '.' as well, so this
\* loop is entered at a character that is no digit and never iterates.
ReadFractionLoop ==
    /\ pc = "read_fraction"
    /\ IF IsFractionChar(parser.lexer.current_char)
       THEN ScanAdvance(<<[stack[1] EXCEPT !.text = Append(@, parser.lexer.current_char)]>>)
       ELSE ScanReturn(NumberToken(input, stack[1].start_pos, parser.lexer,
                                   ParseF64(stack[1].text)))
    /\ UNCHANGED <<input, retval, result, tripVars, locVars>>

\* an iteration of the loop of read_keyword
ReadKeywordIter ==
    /\ pc = "read_keyword"
    /\ parser.lexer.current_char # None
    /\ is_alphanumeric(parser.lexer.current_char)
    /\ ScanAdvance(<<[stack[1] EXCEPT !.text = Append(@, parser.lexer.current_char)]>>)
    /\ UNCHANGED <<input, retval, result, tripVars, locVars>>

\* the loop of read_keyword ends and the keyword is matched
ReadKeywordExit ==
    /\ pc = "read_keyword"
    /\ parser.lexer.current_char = None \/ ~ is_alphanumeric(parser.lexer.current_char)
    /\ ScanReturn(KeywordToken(input, stack[1].start_pos,
                               [lx |-> parser.lexer, keyword |-> stack[1].text]))
    /\ UNCHANGED <<input, retval, result, tripVars, locVars>>

ScanStep ==
    \/ SkipWhitespaceIter
    \/ SkipWhitespaceExit
    \/ ScanMatch
    \/ ReadStringIter
    \/ ReadStringReturn
    \/ ReadStringExit
    \/ ReadNumberIter
    \/ ReadNumberExit
    \/ ReadFractionLoop
    \/ ReadKeywordIter
    \/ ReadKeywordExit

-----------------------------------------------------------------------------
(* The texts the specifications start from: concatenations of chunks *)

\* the exponent suffix of the literal 1e10
Exponent == <<"e", "1", "0">>

Text(chunk) ==
    CASE chunk = "str" -> <<"\"", "a", "\"">>
      [] chunk = "member" -> <<"\"", "a", "\"", ":", "1">>
      [] chunk = "member2" -> <<"\"", "a", "\"", ":", "2">>
      [] chunk = "key" -> <<"\"", "b", "\"", ":">>
      [] chunk = "exp" -> Exponent
      [] chunk = "EXP" -> <<"E", "1">>
      [] chunk = "true" -> <<"t", "r", "u", "e">>
      [] chunk = "false" -> <<"f", "a", "l", "s", "e">>
      [] chunk = "null" -> <<"n", "u", "l", "l">>
      [] chunk = "escapes" -> <<"\"", "\\", "\"", "\\", "\\", "\\", "n", "\"">>
      [] chunk = "escapes2" -> <<"\"", "a", "\\", "r", "\\", "t", WideChar, "\"">>
      [] chunk = "fraction" -> <<"-", "2", ".", "5">>
      [] chunk = "zero" -> <<"-", "0", ".", "0">>
      [] chunk = "ten" -> <<"1", "0">>
      [] chunk = "huge" -> <<"1", "0", "0", "0", "0", "0", "0", "0", "0", "0",
                             "0", "0", "0", "0", "0", "0", "0", "0", "0", "0">>
      [] OTHER -> <<chunk>>

\* the concatenation of the chunks f names
Joined(f) == Concat([k \in DOMAIN f |-> Text(f[k])])

\* the state before parse_json is called on a text of at most n of the chunks
Given(chunks, n) == \E m \in 0..n : \E f \in [1..m -> chunks] : Fresh(Joined(f))

-----------------------------------------------------------------------------
(* Spec: parse_json on every text of at most MaxChunks chunks *)

Chunks == {"{", "}", "[", "]", ",", "1", " ", "@", "str", "member", "exp"}

MaxChunks == 4

Init == Given(Chunks, MaxChunks)

Next == ParserStep

Spec == Init /\ [][Next]_vars

-----------------------------------------------------------------------------
(* ObjectSpec: parse_json on texts made of braces, commas and members *)

ObjectChunks == {"{", "}", ",", "member", "member2", "key"}

MaxObjectChunks == 5

ObjectInit == Given(ObjectChunks, MaxObjectChunks)

ObjectSpec == ObjectInit /\ [][Next]_vars

-----------------------------------------------------------------------------
(* TripSpec: parse_json, to_json_string on its value, and parse_json again *)

TripChunks == {"[", "]", "{", "}", ",", "key", "1", "ten", "huge", "fraction", "zero",
               "true", "false", "null", "str", "escapes", "escapes2"}

MaxTripChunks == 3

TripInit == Given(TripChunks, MaxTripChunks)

TripNext == ParserStep \/ Render

TripSpec == TripInit /\ [][TripNext]_vars

-----------------------------------------------------------------------------
(* LexSpec: a Lexer on its own, next_token called again and again *)

LexChunks == {"\"", "\\", "n", "1", "-", ".", " ", "\n", "@", "{", WideChar, "true"}

MaxLexChunks == 4

LexInit ==
    \E m \in 0..MaxLexChunks : \E f \in [1..m -> LexChunks] :
        /\ input = Joined(f)
        /\ parser = [NoParser EXCEPT !.lexer = LexerNew(Joined(f))]
        /\ pc = "lexer"
        /\ stack = <<>>
        /\ retval = JsonNull
        /\ result = NoResult
        /\ phase = 1
        /\ first = NoResult
        /\ loc_offset = 0
        /\ loc_result = calculate_position(0, <<>>)

LexNext == LexNextToken

LexSpec == LexInit /\ [][LexNext]_vars

-----------------------------------------------------------------------------
(* AdvanceSpec: Parser::new, then Parser::advance up to MaxAdvances times,  *)
(* past the point where parse_json would have stopped calling it            *)

AdvanceChunks == {"1", " ", "@", "[", ",", "\""}

MaxAdvanceChunks == 4

AdvanceInit == Given(AdvanceChunks, MaxAdvanceChunks)

AdvanceNext == ParserNew \/ AdvanceAlone

AdvanceSpec == AdvanceInit /\ [][AdvanceNext]_vars

-----------------------------------------------------------------------------
(* ScanSpec: a Lexer on its own, next_token called until it returns Eof or *)
(* an error, one loop iteration at a time                                   *)

ScanChunks == {" ", "\"", "\\", "n", "1", "-", ".", "@", "{", WideChar}

MaxScanChunks == 4

ScanInit ==
    \E m \in 0..MaxScanChunks : \E f \in [1..m -> ScanChunks] :
        /\ input = Joined(f)
        /\ parser = [NoParser EXCEPT !.lexer = LexerNew(Joined(f))]
        /\ pc = "next_token"
        /\ stack = <<>>
        /\ retval = JsonNull
        /\ result = NoResult
        /\ phase = 1
        /\ first = NoResult
        /\ loc_offset = 0
        /\ loc_result = calculate_position(0, <<>>)

ScanNext == ScanStep

ScanSpec == ScanInit /\ [][ScanNext]_vars /\ WF_vars(ScanNext)

-----------------------------------------------------------------------------
(* LocationSpec: ParseError::calculate_position on every text of at most   *)
(* MaxLocationLen characters and every offset up to MaxBeyond past its end *)

LocationChars == {"a", "\n", WideChar}

MaxLocationLen == 4

MaxBeyond == 2

LocationInit ==
    \E m \in 0..MaxLocationLen : \E text \in [1..m -> LocationChars] :
        /\ input = text
        /\ parser = NoParser
        /\ pc = "locate"
        /\ stack = <<>>
        /\ retval = JsonNull
        /\ result = NoResult
        /\ phase = 1
        /\ first = NoResult
        /\ loc_offset = 0
        /\ loc_result = calculate_position(0, <<>>)

LocationNext == \E offset \in 0..(ByteLen(input) + MaxBeyond) : Locate(offset)

LocationSpec == LocationInit /\ [][LocationNext]_vars

-----------------------------------------------------------------------------
(* What the properties below speak of *)

RECURSIVE LexedFrom(_, _, _)
\* the tokens Lexer::next_token yields from the lexer state lx on, up to Eof
\* (clean) or to its first error (not clean)
LexedStep(inp, toks, r) ==
    IF ~ r.ok THEN [clean |-> FALSE, toks |-> toks]
    ELSE IF r.tok = Eof THEN [clean |-> TRUE, toks |-> toks]
    ELSE LexedFrom(inp, r.lx, Append(toks, r.tok))

LexedFrom(inp, lx, toks) == LexedStep(inp, toks, next_token(inp, lx))

\* the tokens of a whole text
Lexed(inp) == LexedFrom(inp, LexerNew(inp), <<>>)

Kinds(toks) == [k \in DOMAIN toks |-> toks[k].kind]

CloserOf(opener) == IF opener = "LeftBrace" THEN "RightBrace" ELSE "RightBracket"

RECURSIVE OpenAfter(_, _)
\* the '{' and '[' still open after the first k of the token kinds
OpenAfter(kinds, k) ==
    IF k = 0 THEN <<>>
    ELSE IF kinds[k] \in {"LeftBrace", "LeftBracket"}
    THEN Append(OpenAfter(kinds, k - 1), kinds[k])
    ELSE IF kinds[k] \in {"RightBrace", "RightBracket"} /\ OpenAfter(kinds, k - 1) # <<>>
    THEN SubSeq(OpenAfter(kinds, k - 1), 1, Len(OpenAfter(kinds, k - 1)) - 1)
    ELSE OpenAfter(kinds, k - 1)

Last(s) == s[Len(s)]

\* inside an object or array, a comma immediately followed by the token that
\* closes it, the parser having consumed the `reached` first tokens,
\* all those before the comma among them
TrailingCommaReached(kinds, reached) ==
    \E i \in 1..(Len(kinds) - 1) :
        /\ kinds[i] = "Comma"
        /\ OpenAfter(kinds, i) # <<>>
        /\ kinds[i + 1] = CloserOf(Last(OpenAfter(kinds, i)))
        /\ reached >= i - 1

\* a comma immediately followed by a closing token
CommaBeforeCloser(kinds) ==
    \E i \in 1..(Len(kinds) - 1) :
        kinds[i] = "Comma" /\ kinds[i + 1] \in {"RightBrace", "RightBracket"}

\* digits, then 'e' or 'E', then digits
IsExponentLiteral(s) ==
    \E i \in 2..(Len(s) - 1) :
        /\ s[i] \in {"e", "E"}
        /\ \A j \in (1..Len(s)) \ {i} : is_ascii_digit(s[j])

Returned == pc = "done"
ReturnedOk == pc = "done" /\ result.kind = "ok"
ReturnedErr == pc = "done" /\ result.kind = "err"

TrailingCommaMessage == <<"Trailing comma not allowed">>

\* Parser::new has succeeded: its first lexer.next_token()? did
ParserBuilt == pc # "new" /\ next_token(input, LexerNew(input)).ok

-----------------------------------------------------------------------------
(* Properties of parse_json, checked under Spec *)

\* C1: parse_json returns Ok only if the entire input is one JSON value: the
\* whole text lexes into tokens without an error and the value parsed used
\* every one of them, so nothing but whitespace follows the value.
C1_OkOnlyOnWholeInput ==
    ReturnedOk => /\ Lexed(input).clean
                  /\ parser.consumed = Kinds(Lexed(input).toks)

\* C2: whenever the lexer fails while producing a token for the parser,
\* parse_json returns that lexer error itself, message and offset.
C2_LexerErrorReturned ==
    (Returned /\ parser.lex_failure.any) => result = Err(parser.lex_failure.err)

\* C3: parse_json fails on a number literal immediately followed by an
\* exponent suffix, such as 1e10.
C3_ExponentRejected ==
    (Returned /\ IsExponentLiteral(input)) => result.kind = "err"

\* C4, as stated: every input in which, inside an object or array, a comma
\* is immediately followed by the token closing it fails with "Trailing comma
\* not allowed".  Only the inputs count whose tokens before that comma the
\* parser accepted.
C4_AnyTrailingCommaMessage ==
    (Returned /\ TrailingCommaReached(Kinds(Lexed(input).toks), Len(parser.consumed)))
        => (result.kind = "err" /\ result.err.message = TrailingCommaMessage)

\* parse_object / parse_array has just consumed a comma and the current token
\* is the one closing it
AtTrailingComma ==
    /\ stack # <<>>
    /\ parser.consumed # <<>>
    /\ Last(parser.consumed) = "Comma"
    /\ parser.current_token.kind =
            (IF Last(stack).kind = "object" THEN "RightBrace" ELSE "RightBracket")

\* C4, amended: parse_json fails with "Trailing comma not allowed" exactly
\* when parse_object / parse_array, having consumed the comma after a member,
\* finds its own closing token next; and it never returns Ok after consuming
\* a comma immediately followed by '}' or ']'.
C4_TrailingCommaRejected ==
    /\ ReturnedOk => ~ CommaBeforeCloser(parser.consumed)
    /\ ReturnedErr => (AtTrailingComma <=> result.err.message = TrailingCommaMessage)

C4_Witness == ReturnedErr /\ AtTrailingComma /\ Last(stack).kind = "object"

\* C7, as stated: once Parser::new has succeeded both token slots are
\* populated, and the lookahead is Eof whenever the lexer has exhausted the
\* input.
C7_LookaheadEofWhenExhausted ==
    ParserBuilt =>
        /\ parser.current_token # NoToken
        /\ parser.peek_token # NoToken
        /\ parser.lexer.current_char = None => parser.peek_token = Eof

\* C7, amended: once Parser::new has succeeded both token slots are
\* populated, and the lookahead is Eof whenever the lexer's last call returned
\* Eof.
C7_SlotsPopulated ==
    ParserBuilt =>
        /\ parser.current_token # NoToken
        /\ parser.peek_token # NoToken
        /\ (parser.lex_result.ok /\ parser.lex_result.tok = Eof)
                => parser.peek_token = Eof

C7_Witness ==
    /\ ParserBuilt
    /\ Len(parser.consumed) >= 2
    /\ parser.lex_result.ok
    /\ parser.lex_result.tok = Eof
    /\ parser.current_token = Eof

-----------------------------------------------------------------------------
(* Properties of the Lexer, checked under LexSpec *)

\* the offsets of the characters of a text that are not whitespace
InkOffsets(inp) == {OffsetOf(inp, k) : k \in {j \in 1..Len(inp) : ~ is_whitespace(inp[j])}}

Least(S) == CHOOSE x \in S : \A y \in S : x <= y
Greatest(S) == CHOOSE x \in S : \A y \in S : x >= y

\* the offset of the first character of the token a next_token call that
\* begins scanning at offset `from` produces
TokenStart(inp, from) == Least({o \in InkOffsets(inp) : o >= from} \cup {ByteLen(inp)})

LexerFailed == pc = "lexer" /\ ~ parser.lex_result.ok

\* C5: an "unexpected character", "unterminated string", "invalid number" or
\* "unexpected keyword" error of Lexer::next_token carries the byte offset of
\* the first character of the failing token.
C5_ErrorAtTokenStart ==
    (/\ LexerFailed
     /\ Head(parser.lex_result.err.message) \in
            {"Unexpected character: '", "Unterminated string", "Invalid number",
             "Unexpected keyword: "})
        => parser.lex_result.err.position = TokenStart(input, parser.scan_from)

\* C6: in every state of a Lexer, after new and after any next_token calls,
\* current_char is None if and only if position equals the input length.
C6_NoneIffAtEnd ==
    pc = "lexer" => (parser.lexer.current_char = None
                        <=> parser.lexer.position = ByteLen(input))

-----------------------------------------------------------------------------
(* Object members, checked under ObjectSpec *)

Openers(kinds, k) == Cardinality({j \in 1..k : kinds[j] \in {"LeftBrace", "LeftBracket"}})
Closers(kinds, k) == Cardinality({j \in 1..k : kinds[j] \in {"RightBrace", "RightBracket"}})

\* where the keys of the members of the outermost object are, among the tokens
MemberKeyIndexes(kinds) ==
    {i \in 1..(Len(kinds) - 1) :
        /\ kinds[i] = "String"
        /\ kinds[i + 1] = "Colon"
        /\ Openers(kinds, i) - Closers(kinds, i) = 1}

\* the n-th smallest element of a set of numbers
Nth(S, n) == CHOOSE x \in S : Cardinality({y \in S : y < x}) = n - 1

\* whether the value v is what a member whose value begins with tok holds
BeginsWith(v, tok) ==
    CASE tok.kind = "Number" -> v = JsonNumber(tok.n)
      [] tok.kind = "String" -> v = JsonString(tok.s)
      [] tok.kind = "LeftBrace" -> v.tag = "Object"
      [] tok.kind = "LeftBracket" -> v.tag = "Array"
      [] OTHER -> FALSE

\* the pairs are the members at the key indexes, in order
PairsAre(pairs, toks, indexes) ==
    /\ Len(pairs) = Cardinality(indexes)
    /\ \A n \in 1..Len(pairs) :
          /\ pairs[n].key = toks[Nth(indexes, n)].s
          /\ BeginsWith(pairs[n].value, toks[Nth(indexes, n) + 2])

\* C8: when parse_json succeeds with an Object, its pairs are the key:value
\* members of the input, one pair each, in input order, equal keys included.
C8_MembersKept ==
    (ReturnedOk /\ result.value.tag = "Object")
        => PairsAre(result.value.items, Lexed(input).toks,
                    MemberKeyIndexes(Kinds(Lexed(input).toks)))

C8_Witness ==
    /\ ReturnedOk
    /\ result.value.tag = "Object"
    /\ Len(result.value.items) = 2
    /\ result.value.items[1].key = result.value.items[2].key
    /\ result.value.items[1].value # result.value.items[2].value

-----------------------------------------------------------------------------
(* The round trip, checked under TripSpec *)

\* C9: when parse_json(s) returns Ok(v), parse_json(to_json_string(v)) returns
\* Ok of a value equal to v.
C9_RoundTrip ==
    (phase = 2 /\ pc = "done") => (result.kind = "ok" /\ JsonEq(result.value, first.value))

-----------------------------------------------------------------------------
(* Locations, checked under LocationSpec *)

\* the offsets of the newlines strictly before an offset
NewlinesBefore(inp, offset) ==
    {o \in {OffsetOf(inp, k) : k \in {j \in 1..Len(inp) : inp[j] = "\n"}} : o < offset}

Located == pc = "located"

\* C10, as stated: for every offset and input, line is 1 + the number of
\* newlines strictly before offset, column is 1 + (offset - index of the
\* nearest newline before offset), or 1 + offset when there is none, and the
\* computation never fails.
C10_ColumnOnePlusDistance ==
    Located =>
        /\ ~ loc_result.panics
        /\ loc_result.line = 1 + Cardinality(NewlinesBefore(input, loc_offset))
        /\ loc_result.column =
              1 + (IF NewlinesBefore(input, loc_offset) = {} THEN loc_offset
                   ELSE loc_offset - Greatest(NewlinesBefore(input, loc_offset)))

-----------------------------------------------------------------------------
(* The lexer at the end of the input, checked under LexSpec *)

\* the last Lexer::next_token call returned Ok(Token::Eof)
ReturnedEof(ps) == ps.lex_result.ok /\ ps.lex_result.tok = Eof

\* C11: once Lexer::next_token has returned Eof, every later call returns
\* Ok(Eof) again, never an error, and leaves the scan position unchanged.
C11_EofRepeats ==
    [][(pc = "lexer" /\ ReturnedEof(parser))
          => (ReturnedEof(parser') /\ parser'.lexer = parser.lexer)]_vars

\* next_token was called again on the lexer of " " after it had returned Eof:
\* the call began at the end of the input and returned Eof
C11_Witness ==
    /\ pc = "lexer"
    /\ input = <<" ">>
    /\ ReturnedEof(parser)
    /\ parser.scan_from = ByteLen(input)
    /\ parser.lexer.position = ByteLen(input)

-----------------------------------------------------------------------------
(* Termination: the lexer's loops under ScanSpec, parse_json under Spec *)

\* an iteration of one of the lexer's scanning loops, after which the loop
\* goes on
ScanIter ==
    \/ SkipWhitespaceIter
    \/ ReadStringIter
    \/ ReadNumberIter
    \/ ReadFractionLoop /\ IsFractionChar(parser.lexer.current_char)
    \/ ReadKeywordIter

\* C12, as stated for the lexer: every iteration of the lexer's scanning
\* loops strictly increases the scan position.
C12_ScanPositionIncreases ==
    [][ScanIter => parser'.lexer.position > parser.lexer.position]_vars

\* C12, what the lexer's loops do instead: an iteration strictly increases
\* the scan position or, on the last character of the input, leaves it and
\* sets current_char to None, which ends every loop; and next_token returns.
C12_ScanProgress ==
    /\ [][ScanIter => \/ parser'.lexer.position > parser.lexer.position
                      \/ /\ parser'.lexer.position = parser.lexer.position
                         /\ parser.lexer.position = ByteLen(input)
                         /\ parser'.lexer.current_char = None]_vars
    /\ <>(pc = "scanned")

\* C12, for the parser: a step of Parser::new goes on to parse_value or
\* returns, and every later step consumes a token or returns.
C12_ParserProgress ==
    [][pc = "new" \/ pc' = "done"
          \/ Len(parser'.consumed) > Len(parser.consumed)]_vars

\* C12, for the parser: it consumes no more tokens than the input holds, so
\* the steps above are finitely many, and what parse_json returns is Ok or Err.
C12_ParserBounded ==
    /\ Len(parser.consumed) <= Len(Lexed(input).toks)
    /\ pc = "done" => result.kind \in {"ok", "err"}

-----------------------------------------------------------------------------
(* Eof in the parser, checked under AdvanceSpec *)

\* C13: once the parser's current token is Eof, Parser::advance leaves the
\* current token and the lookahead equal to Eof and does not call the lexer:
\* the lexer, the record of its calls and their number stay as they were.
C13_EofAbsorbing ==
    [][(pc = "value" /\ parser.current_token = Eof)
          => /\ parser'.current_token = Eof
             /\ parser'.peek_token = Eof
             /\ parser' = [parser EXCEPT !.consumed = Append(@, "Eof")]]_vars

\* Parser::advance was called twice with Eof as the current token, and part
\* of the input is still before the lexer
C13_Witness ==
    /\ pc = "value"
    /\ Len(parser.consumed) >= 3
    /\ parser.consumed[Len(parser.consumed)] = "Eof"
    /\ parser.consumed[Len(parser.consumed) - 1] = "Eof"
    /\ parser.current_token = Eof
    /\ parser.peek_token = Eof
    /\ parser.lexer.current_char # None

====
